---- MODULE Spec2Model ----
(***************************************************************************)
(* Cloudflare Pages -> Discord notifier (src/index.ts).                    *)
(*                                                                         *)
(* A scheduled trigger calls handle(env).  handle starts one pipeline per  *)
(* configured project; a pipeline fetches the project's latest deployment, *)
(* reads the project's record from the KV store, decides, sends at most    *)
(* one Discord embed and writes the record back.  Each await of a pipeline *)
(* is one step of the model, and each collaborator call (Pages API, KV     *)
(* get, Discord webhook, KV put) may succeed or fail.                      *)
(***************************************************************************)
EXTENDS Integers, Sequences, FiniteSets, TLC

VARIABLES
    PROJECTS,   \* env.PROJECTS, the configured project list (raw JSON text)
    latest,     \* Pages API: the latest deployment of each project
    store,      \* env.STATE, the KV namespace: key -> serialized record
    inv,        \* per invocation of handle: "idle" or "running"
    pipes,      \* per invocation: the pipelines of its Promise.all
    sent,       \* per project: the embeds handed to the Discord webhook
    lastObs,    \* per project: what the previous poll fetched (history)
    firstObs,   \* per project: how each deployment id was first observed (history)
    polls,      \* number of scheduled triggers so far
    overlap     \* an invocation started while another was running (history)

vars == <<PROJECTS, latest, store, inv, pipes, sent, lastObs, firstObs, polls,
          overlap>>

---------------------------------------------------------------------------
(* Bounds of the model.                                                    *)

MaxId == 2          \* deployment ids are 1..MaxId
MaxPolls == 3       \* scheduled triggers per behaviour
MaxInv == 2         \* invocations of handle that may be in flight at once

Ids == 1..MaxId
Invs == 1..MaxInv

\* The longest project list the model configures.
MaxList == 2

---------------------------------------------------------------------------
(* Values.                                                                 *)

ProjectNames == {"site-a", "site-b"}

\* A non-string JavaScript value (undefined, null, a number) in a field.
Undefined == "<undefined>"

\* A deployment without an id (missing or empty string): !dep.id is true.
NoId == 0

\* data.result[0] is missing: fetchLatestDeployment returns null.
NullDeployment == [null |-> TRUE]

\* STATE.get answers null for a key that was never written.
NullText == <<>>

\* prev = null: no record for the project.
NoRecord == [null |-> TRUE]

\* latest_stage.status as the API may deliver it.
RawStatuses ==
    {"active", "SUCCESS", "failed", "building", "constructor", "", Undefined}

\* const s = (x) => (typeof x === "string" ? x : "")
s(x) == IF x = Undefined THEN "" ELSE x

\* String.prototype.toLowerCase on the statuses of the model.
ToLowerCase(str) ==
    CASE str = "SUCCESS" -> "success"
      [] str = "Active" -> "active"
      [] str = "FAILED" -> "failed"
      [] OTHER -> str

\* Own keys of the two lookup tables; every own value is true.
TERMINAL == {"success", "failed", "canceled", "error", "skipped"}
NON_TERMINAL == {"pending", "active", "in_progress", "idle"}

\* Both tables are object literals, so a lookup that misses the own keys
\* continues on Object.prototype; these are its keys, all with truthy values.
ObjectPrototype ==
    {"constructor", "__proto__", "hasOwnProperty", "isPrototypeOf",
     "propertyIsEnumerable", "toLocaleString", "toString", "valueOf"}

\* The truthiness of table[key], as in `if (TERMINAL[status])`.
Lookup(table, key) == key \in table \/ key \in ObjectPrototype

\* Mutant of kvKey: one key for every project.
kvKeyShared(project) == "deploy:"

\* const kvKey = (project) => `deploy:${project}`
kvKey(project) == "deploy:" \o project

Keys == {kvKey(p) : p \in ProjectNames}

\* JSON.stringify({ id, status }) and JSON.parse of that text.
JSONstringify(rec) == <<"{\"id\":", rec.id, ",\"status\":", rec.status, "}">>
JSONparse(text) == [id |-> text[2], status |-> text[4]]

---------------------------------------------------------------------------
(* getProjects: env.PROJECTS is JSON text.  The model keeps the text as a  *)
(* record: kind says what JSON.parse makes of it, items are the elements   *)
(* of the array when it is one.                                            *)

\* Mutant of getProjects: a JSON value that is not an array is taken as the
\* one name of the list.
getProjectsWrap(raw) ==
    IF raw.kind = "missing" THEN << >>
    ELSE IF raw.kind = "malformed" THEN << >>
    ELSE IF raw.kind # "array" THEN <<"site-a">>
    ELSE SelectSeq(raw.items, LAMBDA x : x # "")

getProjects(raw) ==
    IF raw.kind = "missing" THEN << >>            \* JSON.parse("[]")
    ELSE IF raw.kind = "malformed" THEN << >>     \* catch { return [] }
    ELSE IF raw.kind # "array" THEN << >>         \* !Array.isArray(arr)
    ELSE SelectSeq(raw.items, LAMBDA x : x # "")  \* .map(String).filter(Boolean)

---------------------------------------------------------------------------
(* The decision of a pipeline, lines 232-258.                              *)

\* Mutant of Notifications: the same-id branch forgets that the recorded
\* status is already terminal, so every poll of a finished deployment
\* sends Finished again.
NotificationsRepeatFinish(prev, latestId, status) ==
    IF prev = NoRecord \/ latestId # prev.id THEN
        IF Lookup(NON_TERMINAL, status) THEN <<"Started">>
        ELSE IF Lookup(TERMINAL, status) THEN <<"Finished">>
        ELSE << >>
    ELSE
        IF Lookup(TERMINAL, status) THEN <<"Finished">> ELSE << >>

\* Mutant of Notifications: a new deployment seen already terminal gets a
\* synthetic Started before its Finished.
NotificationsBoth(prev, latestId, status) ==
    IF prev = NoRecord \/ latestId # prev.id THEN
        IF Lookup(NON_TERMINAL, status) THEN <<"Started">>
        ELSE IF Lookup(TERMINAL, status) THEN <<"Started", "Finished">>
        ELSE << >>
    ELSE
        IF Lookup(TERMINAL, status) /\ ~Lookup(TERMINAL, prev.status)
        THEN <<"Finished">>
        ELSE << >>

\* Mutant of Notifications: the id comparison is always true (the fetched
\* id is compared with the record instead of its id), so every poll takes
\* the new-deployment branch.
NotificationsAlwaysNew(prev, latestId, status) ==
    IF Lookup(NON_TERMINAL, status) THEN <<"Started">>
    ELSE IF Lookup(TERMINAL, status) THEN <<"Finished">>
    ELSE << >>

\* The embeds the pipeline sends, in order, for the record read from the
\* store (prev), the fetched id and the computed status.
\* Mutant of Notifications: a first or new deployment found already
\* terminal gets no embed (the else-if branches are missing).
NotificationsNoRaceFinish(prev, latestId, status) ==
    IF prev = NoRecord \/ latestId # prev.id THEN
        IF Lookup(NON_TERMINAL, status) THEN <<"Started">> ELSE << >>
    ELSE
        IF Lookup(TERMINAL, status) /\ ~Lookup(TERMINAL, prev.status)
        THEN <<"Finished">>
        ELSE << >>

Notifications(prev, latestId, status) ==
    IF prev = NoRecord THEN
        \* First observation
        IF Lookup(NON_TERMINAL, status) THEN <<"Started">>
        ELSE IF Lookup(TERMINAL, status) THEN <<"Finished">>
        ELSE << >>
    ELSE IF latestId # prev.id THEN
        \* New deployment
        IF Lookup(NON_TERMINAL, status) THEN <<"Started">>
        ELSE IF Lookup(TERMINAL, status) THEN <<"Finished">>
        ELSE << >>
    ELSE
        \* Same deployment id; check for transition to terminal
        IF Lookup(TERMINAL, status) /\ ~Lookup(TERMINAL, prev.status)
        THEN <<"Finished">>
        ELSE << >>

\* Mutant of ShouldPut: the record is written on every poll that decides.
ShouldPutAlways(prev, latestId, status) == TRUE

\* Whether the pipeline calls env.STATE.put after its sends.
ShouldPut(prev, latestId, status) ==
    IF prev = NoRecord THEN TRUE
    ELSE IF latestId # prev.id THEN TRUE
    ELSE Lookup(TERMINAL, status) /\ ~Lookup(TERMINAL, prev.status)

\* const status = statusRaw || "unknown", statusRaw the lower-cased string.
StatusOf(dep) ==
    LET statusRaw == ToLowerCase(s(dep.status))
    IN  IF statusRaw = "" THEN "unknown" ELSE statusRaw

---------------------------------------------------------------------------
(* Pipelines.  pc is the await the pipeline is suspended at; "done" is a   *)
(* pipeline whose promise has resolved.                                    *)

\* History: what is kept of the pipeline a new one replaces.
NoPrior == [threw |-> "none", plan |-> << >>, write |-> FALSE]

Prior(i, k) ==
    IF k <= Len(pipes[i]) /\ pipes[i][k].threw # "none"
    THEN [threw |-> pipes[i][k].threw,
          plan  |-> pipes[i][k].plan,
          write |-> pipes[i][k].write]
    ELSE NoPrior

NewPipe(project, poll) ==
    [project |-> project,
     poll    |-> poll,             \* which trigger started it (history)
     pc      |-> "fetch",
     before  |-> store[kvKey(project)],  \* the stored text at the trigger (history)
     dep     |-> NullDeployment,   \* dep, as fetched
     latestId |-> NoId,
     status  |-> "",
     prev    |-> NoRecord,         \* prev, as read
     plan    |-> << >>,            \* embeds decided on (history)
     todo    |-> << >>,            \* embeds still to send
     write   |-> FALSE,            \* a put follows the sends
     \* history of this run
     read    |-> FALSE,            \* STATE.get returned
     keys    |-> {},               \* the keys passed to STATE.get and STATE.put
     sends   |-> << >>,            \* kinds handed to the webhook
     sendOutcome |-> "none",       \* "ok", "non2xx" or "threw"
     put     |-> "none",           \* "ok" or "threw"
     wrote   |-> NoRecord,         \* the record put
     repeat  |-> FALSE,            \* fetched what the previous poll fetched
     caught  |-> FALSE,            \* the catch block ran
     threw   |-> "none",           \* the call that threw: "fetch", "get", "send", "put"
     prior   |-> NoPrior]          \* the previous pipeline of this slot, if it threw

Pipe(i, k) == pipes[i][k]

SetPipe(i, k, p) == [pipes EXCEPT ![i][k] = p]

Running(i, k, at) ==
    /\ inv[i] = "running"
    /\ k \in 1..Len(pipes[i])
    /\ pipes[i][k].pc = at

---------------------------------------------------------------------------
(* The Pages API.  data.result[0] of a project is its latest deployment:   *)
(* none yet, one without a usable id, or a deployment whose latest stage   *)
(* has some status.  Between two fetches the latest stage may have moved   *)
(* on, or a new deployment may have become the latest.  The status read is *)
(* that of latest_stage, one of the stages queued, initialize, clone_repo, *)
(* build, deploy: a stage that ended may be followed by one that runs, so  *)
(* no order is assumed between the statuses of two answers.  Deployment    *)
(* ids only move forward: a superseded id is not the latest again.         *)

Deployments(ids) == [id : ids, status : RawStatuses]

\* Answers without a deployment to report: an empty result list, or a first
\* element without an id.
Malformed == {NullDeployment, [id |-> NoId, status |-> "active"]}

\* Mutant of HasId: only a missing deployment is discarded (if (!dep)).
HasIdNullOnly(dep) == dep # NullDeployment

\* The truthiness of dep?.id.
HasId(dep) == dep # NullDeployment /\ dep.id # NoId

\* What the API may answer when cur is the last deployment it reported.
Answers(cur) ==
    Malformed \cup
        IF cur = NullDeployment
        THEN Deployments({1})
        ELSE Deployments({cur.id, cur.id + 1} \cap Ids)

---------------------------------------------------------------------------
(* handle(env), lines 212-264.                                             *)

\* scheduled: ctx.waitUntil(handle(env)); handle runs up to its first await.
Trigger(i) ==
    /\ inv[i] = "idle"
    /\ polls < MaxPolls
    /\ polls' = polls + 1
    /\ LET projects == getProjects(PROJECTS)
       IN  IF Len(projects) = 0
           THEN \* "No projects configured in PROJECTS var"
                /\ pipes' = [pipes EXCEPT ![i] = << >>]
                /\ UNCHANGED <<inv, overlap>>
           ELSE /\ pipes' = [pipes EXCEPT
                        ![i] = [k \in 1..Len(projects) |->
                                 [NewPipe(projects[k], polls + 1)
                                    EXCEPT !.prior = Prior(i, k)]]]
                /\ inv' = [inv EXCEPT ![i] = "running"]
                /\ overlap' = (overlap \/ \E j \in Invs \ {i} : inv[j] = "running")
    /\ UNCHANGED <<PROJECTS, latest, store, sent, lastObs, firstObs>>

\* Mutant of Resolve: handle resolves as soon as one pipeline has
\* (Promise.race).
ResolveEarly(i) ==
    /\ inv[i] = "running"
    /\ \E k \in 1..Len(pipes[i]) : pipes[i][k].pc = "done"
    /\ inv' = [inv EXCEPT ![i] = "idle"]
    /\ UNCHANGED <<PROJECTS, overlap, latest, store, pipes, sent, lastObs,
                   firstObs, polls>>

\* Promise.all resolves once every pipeline has.
Resolve(i) ==
    /\ inv[i] = "running"
    /\ \A k \in 1..Len(pipes[i]) : pipes[i][k].pc = "done"
    /\ inv' = [inv EXCEPT ![i] = "idle"]
    /\ UNCHANGED <<PROJECTS, overlap, latest, store, pipes, sent, lastObs,
                   firstObs, polls>>

\* fetchLatestDeployment returns; lines 222-227.
FetchOk(i, k) ==
    /\ Running(i, k, "fetch")
    /\ \E dep \in Answers(latest[Pipe(i, k).project]) :
       LET p == Pipe(i, k)
       IN  /\ latest' = IF dep \in Malformed THEN latest
                         ELSE [latest EXCEPT ![p.project] = dep]
           /\ IF ~HasId(dep)
              THEN \* if (!dep?.id) return;
                   /\ pipes' = SetPipe(i, k, [p EXCEPT !.pc = "done", !.dep = dep])
                   /\ lastObs' = [lastObs EXCEPT ![p.project] = NoRecord]
                   /\ UNCHANGED firstObs
              ELSE LET obs == [id |-> dep.id, status |-> StatusOf(dep)]
                   IN  /\ pipes' = SetPipe(i, k,
                               [p EXCEPT !.pc = "get", !.dep = dep,
                                         !.latestId = dep.id,
                                         !.status = StatusOf(dep),
                                         !.repeat = (lastObs[p.project] = obs)])
                       /\ lastObs' = [lastObs EXCEPT ![p.project] = obs]
                       /\ UNCHANGED firstObs
    /\ UNCHANGED <<PROJECTS, overlap, store, inv, sent, polls>>

\* Mutant of FetchFail: the catch block also deletes the project's record.
FetchFailClearsRecord(i, k) ==
    /\ Running(i, k, "fetch")
    /\ pipes' = SetPipe(i, k,
            [Pipe(i, k) EXCEPT !.pc = "done", !.caught = TRUE, !.threw = "fetch"])
    /\ store' = [store EXCEPT ![kvKey(Pipe(i, k).project)] = NullText]
    /\ lastObs' = [lastObs EXCEPT ![Pipe(i, k).project] = NoRecord]
    /\ UNCHANGED <<PROJECTS, overlap, latest, inv, sent, firstObs, polls>>

\* The fetch rejects, or the API answers with a non-success status
\* (throw new Error(`Pages API ...`)); the catch block logs it.
FetchFail(i, k) ==
    /\ Running(i, k, "fetch")
    /\ pipes' = SetPipe(i, k,
            [Pipe(i, k) EXCEPT !.pc = "done", !.caught = TRUE, !.threw = "fetch"])
    /\ lastObs' = [lastObs EXCEPT ![Pipe(i, k).project] = NoRecord]
    /\ UNCHANGED <<PROJECTS, overlap, latest, store, inv, sent, firstObs,
                   polls>>

\* History: seen is what is known of the first decision about each id of a
\* project; the first pipeline that decides about id d adds d to it.
FirstSeen(seen, d, status, poll, k) ==
    IF d \in DOMAIN seen THEN seen
    ELSE [e \in DOMAIN seen \cup {d} |->
            IF e = d
            THEN [status |-> status, poll |-> poll, k |-> k, clean |-> FALSE]
            ELSE seen[e]]

\* Mutant of AfterGet: the record is written before the embed is sent.
AfterGetPutFirst(todo, write) ==
    IF write THEN "put"
    ELSE IF todo # << >> THEN "send" ELSE "done"

\* The next await of a pipeline that has decided: in each branch the send
\* precedes the put.
AfterGet(todo, write) ==
    IF todo # << >> THEN "send"
    ELSE IF write THEN "put" ELSE "done"

\* env.STATE.get returns; the decision follows without another await.
GetOk(i, k) ==
    /\ Running(i, k, "get")
    /\ LET p        == Pipe(i, k)
           prevJSON == store[kvKey(p.project)]
           prev     == IF prevJSON # NullText THEN JSONparse(prevJSON) ELSE NoRecord
           todo     == Notifications(prev, p.latestId, p.status)
           write    == ShouldPut(prev, p.latestId, p.status)
       IN  /\ pipes' = SetPipe(i, k,
                [p EXCEPT !.prev = prev, !.read = TRUE, !.todo = todo,
                          !.plan = todo,
                          !.keys = @ \cup {kvKey(p.project)},
                          !.write = write,
                          !.pc = AfterGet(todo, write)])
           /\ firstObs' = [firstObs EXCEPT
                    ![p.project] = FirstSeen(@, p.latestId, p.status, p.poll, k)]
    /\ UNCHANGED <<PROJECTS, overlap, latest, store, inv, sent, lastObs,
                   polls>>

\* Mutant of GetFail: the rejection is not caught inside the pipeline and
\* stops every pipeline of the invocation where it stands.
GetFailAbortsAll(i, k) ==
    /\ Running(i, k, "get")
    /\ pipes' = [pipes EXCEPT ![i] =
            [j \in 1..Len(pipes[i]) |->
                IF j = k
                THEN [pipes[i][j] EXCEPT !.pc = "done", !.caught = TRUE, !.threw = "get"]
                ELSE [pipes[i][j] EXCEPT !.pc = "done"]]]
    /\ UNCHANGED <<PROJECTS, overlap, latest, store, inv, sent, lastObs,
                   firstObs, polls>>

\* env.STATE.get rejects, or JSON.parse of the stored text throws.
GetFail(i, k) ==
    /\ Running(i, k, "get")
    /\ pipes' = SetPipe(i, k,
            [Pipe(i, k) EXCEPT !.pc = "done", !.caught = TRUE, !.threw = "get",
                               !.keys = @ \cup {kvKey(Pipe(i, k).project)}])
    /\ UNCHANGED <<PROJECTS, overlap, latest, store, inv, sent, lastObs,
                   firstObs, polls>>

\* What a pipeline does after sendDiscordEmbed returned.
AfterSend(p, outcome) ==
    [p EXCEPT !.sends = Append(p.sends, Head(p.todo)),
              !.sendOutcome = outcome,
              !.todo = Tail(p.todo),
              !.pc = IF Tail(p.todo) # << >> THEN "send"
                     ELSE IF p.write THEN "put" ELSE "done"]

\* startedEmbed / finishedEmbed of the fetched deployment.
Embed(p) == [kind |-> Head(p.todo), id |-> p.latestId]

\* sendDiscordEmbed: the webhook answers with a success status.
SendOk(i, k) ==
    /\ Running(i, k, "send")
    /\ LET p == Pipe(i, k)
       IN  /\ sent' = [sent EXCEPT ![p.project] = Append(@, Embed(p))]
           /\ pipes' = SetPipe(i, k, AfterSend(p, "ok"))
    /\ UNCHANGED <<PROJECTS, overlap, latest, store, inv, lastObs,
                   firstObs, polls>>

\* sendDiscordEmbed: the webhook answers with a non-success status, which
\* is logged ("Discord webhook non-204"); the function returns normally.
SendNon2xx(i, k) ==
    /\ Running(i, k, "send")
    /\ LET p == Pipe(i, k)
       IN  /\ sent' = [sent EXCEPT ![p.project] = Append(@, Embed(p))]
           /\ pipes' = SetPipe(i, k, AfterSend(p, "non2xx"))
    /\ UNCHANGED <<PROJECTS, overlap, latest, store, inv, lastObs,
                   firstObs, polls>>

\* sendDiscordEmbed: the fetch of the webhook rejects.  sendDiscordEmbed has
\* no try, so the rejection reaches the catch block of the pipeline.
SendThrow(i, k) ==
    /\ Running(i, k, "send")
    /\ LET p == Pipe(i, k)
       IN  /\ sent' = [sent EXCEPT ![p.project] = Append(@, Embed(p))]
           /\ pipes' = SetPipe(i, k,
                [p EXCEPT !.sends = Append(p.sends, Head(p.todo)),
                          !.sendOutcome = "threw",
                          !.todo = << >>,
                          !.pc = "done", !.caught = TRUE, !.threw = "send"])
    /\ UNCHANGED <<PROJECTS, overlap, latest, store, inv, lastObs,
                   firstObs, polls>>

\* env.STATE.put(kvKey(project), JSON.stringify({ id: latestId, status }))
PutOk(i, k) ==
    /\ Running(i, k, "put")
    /\ LET p   == Pipe(i, k)
           rec == [id |-> p.latestId, status |-> p.status]
       IN  /\ store' = [store EXCEPT ![kvKey(p.project)] = JSONstringify(rec)]
           /\ pipes' = SetPipe(i, k,
                [p EXCEPT !.pc = "done", !.put = "ok", !.wrote = rec,
                          !.keys = @ \cup {kvKey(p.project)}])
           /\ firstObs' =
                IF /\ firstObs[p.project][p.latestId].poll = p.poll
                   /\ firstObs[p.project][p.latestId].k = k
                THEN [firstObs EXCEPT ![p.project][p.latestId].clean = TRUE]
                ELSE firstObs
    /\ UNCHANGED <<PROJECTS, overlap, latest, inv, sent, lastObs, polls>>

\* Mutant of PutFail: the put rejects after the value was stored.
PutFailWrites(i, k) ==
    /\ Running(i, k, "put")
    /\ LET p   == Pipe(i, k)
           rec == [id |-> p.latestId, status |-> p.status]
       IN  /\ store' = [store EXCEPT ![kvKey(p.project)] = JSONstringify(rec)]
           /\ pipes' = SetPipe(i, k,
                [p EXCEPT !.pc = "done", !.put = "threw", !.caught = TRUE,
                          !.threw = "put",
                          !.keys = @ \cup {kvKey(p.project)}])
    /\ UNCHANGED <<PROJECTS, overlap, latest, inv, sent, lastObs, firstObs,
                   polls>>

\* env.STATE.put rejects.
PutFail(i, k) ==
    /\ Running(i, k, "put")
    /\ pipes' = SetPipe(i, k,
            [Pipe(i, k) EXCEPT !.pc = "done", !.put = "threw", !.caught = TRUE,
                               !.threw = "put",
                               !.keys = @ \cup {kvKey(Pipe(i, k).project)}])
    /\ UNCHANGED <<PROJECTS, overlap, latest, store, inv, sent, lastObs,
                   firstObs, polls>>

---------------------------------------------------------------------------
(* Specifications.                                                         *)

InitWith(config) ==
    /\ PROJECTS = config
    /\ latest = [p \in ProjectNames |-> NullDeployment]
    /\ store = [key \in Keys |-> NullText]
    /\ inv = [i \in Invs |-> "idle"]
    /\ pipes = [i \in Invs |-> << >>]
    /\ sent = [p \in ProjectNames |-> << >>]
    /\ lastObs = [p \in ProjectNames |-> NoRecord]
    /\ firstObs = [p \in ProjectNames |-> << >>]
    /\ polls = 0
    /\ overlap = FALSE

OneProject == [kind |-> "array", items |-> <<"site-a">>]

\* One project, polls that do not overlap, no collaborator call fails.
InitSeq == InitWith(OneProject)

StepOk(i) ==
    \E k \in 1..MaxList :
        FetchOk(i, k) \/ GetOk(i, k) \/ SendOk(i, k) \/ PutOk(i, k)

StepFail(i) ==
    \E k \in 1..MaxList :
        \/ FetchFail(i, k) \/ GetFail(i, k)
        \/ SendNon2xx(i, k) \/ SendThrow(i, k) \/ PutFail(i, k)

NextSeq ==
    \/ Trigger(1) \/ Resolve(1)
    \/ StepOk(1)

SpecSeq == InitSeq /\ [][NextSeq]_vars

\* One project, polls that do not overlap, collaborator calls may fail.
NextFail ==
    \/ Trigger(1) \/ Resolve(1)
    \/ StepOk(1)
    \/ StepFail(1)

SpecFail == InitSeq /\ [][NextFail]_vars

\* One project, polls that do not overlap; the fetch and the store calls
\* may fail, every send succeeds.
NextStoreFail ==
    \/ Trigger(1) \/ Resolve(1)
    \/ StepOk(1)
    \/ \E k \in 1..MaxList : FetchFail(1, k) \/ GetFail(1, k) \/ PutFail(1, k)

SpecStoreFail == InitSeq /\ [][NextStoreFail]_vars

\* One invocation over two projects; collaborator calls may fail.  The
\* invocation starts with, for each project, no record or a record earlier
\* polls can have written for its first deployment.
TwoProjects == [kind |-> "array", items |-> <<"site-a", "site-b">>]

WrittenTexts ==
    {NullText} \cup
        {JSONstringify([id |-> d.id, status |-> StatusOf(d)]) : d \in Deployments({1})}

LatestFor(text) ==
    IF text = NullText THEN NullDeployment
    ELSE [id |-> JSONparse(text).id, status |-> "active"]

InitTwo ==
    /\ PROJECTS = TwoProjects
    /\ store \in [Keys -> WrittenTexts]
    /\ latest = [p \in ProjectNames |-> LatestFor(store[kvKey(p)])]
    /\ inv = [i \in Invs |-> "idle"]
    /\ pipes = [i \in Invs |-> << >>]
    /\ sent = [p \in ProjectNames |-> << >>]
    /\ lastObs = [p \in ProjectNames |-> NoRecord]
    /\ firstObs = [p \in ProjectNames |-> << >>]
    /\ polls = 0
    /\ overlap = FALSE

NextTwo ==
    \/ polls = 0 /\ Trigger(1)
    \/ Resolve(1)
    \/ StepOk(1)
    \/ StepFail(1)

SpecTwo == InitTwo /\ [][NextTwo]_vars

\* One project polled by MaxInv invocations, of which two may be in flight
\* together; no collaborator call fails.
NextOverlap ==
    \E i \in {1, 2} :
        \/ polls < MaxInv /\ Trigger(i)
        \/ Resolve(i)
        \/ StepOk(i)

SpecOverlap == InitSeq /\ [][NextOverlap]_vars

\* One project polled by two invocations, one after the other or in flight
\* together; collaborator calls may fail.
NextRace ==
    \E i \in {1, 2} :
        \/ pipes[i] = << >> /\ Trigger(i)
        \/ Resolve(i)
        \/ StepOk(i)
        \/ StepFail(i)

SpecRace == InitSeq /\ [][NextRace]_vars

\* One invocation in which no collaborator call fails.
NextOnce ==
    \/ polls = 0 /\ Trigger(1)
    \/ Resolve(1)
    \/ StepOk(1)

\* One invocation for every shape the PROJECTS variable may have: unset,
\* not JSON, JSON that is not an array, or an array of up to MaxList
\* strings of which at most one is not empty (lists of several names are
\* SpecTwo's and SpecDup's).
Lists ==
    {l \in UNION {[1..n -> {"site-a", ""}] : n \in 0..MaxList} :
        Cardinality({j \in DOMAIN l : l[j] # ""}) <= 1}

Configs ==
    {[kind |-> k, items |-> << >>] : k \in {"missing", "malformed", "object"}}
        \cup {[kind |-> "array", items |-> l] : l \in Lists}

InitConfig == \E config \in Configs : InitWith(config)

SpecConfig == InitConfig /\ [][NextOnce]_vars

\* One invocation with a project list that names the same project twice.
Duplicated == [kind |-> "array", items |-> <<"site-a", "site-a">>]

SpecDup == InitWith(Duplicated) /\ [][NextOnce]_vars

\* One project whose polls do not overlap.  The polls before the last
\* counted one are arbitrary: the deployment may change and calls may fail.
\* From the last counted trigger on the project is polled again and again,
\* its latest deployment stays one id in one terminal status, and no call
\* fails.
Settled(dep) ==
    HasId(dep) /\ StatusOf(dep) \in {"success", "failed", "canceled", "error", "skipped"}

TriggerAgain(i) ==
    /\ inv[i] = "idle"
    /\ polls = MaxPolls
    /\ LET projects == getProjects(PROJECTS)
       IN  /\ Len(projects) > 0
           /\ pipes' = [pipes EXCEPT
                    ![i] = [k \in 1..Len(projects) |->
                             [NewPipe(projects[k], polls)
                                EXCEPT !.prior = Prior(i, k)]]]
    /\ inv' = [inv EXCEPT ![i] = "running"]
    /\ UNCHANGED <<PROJECTS, overlap, latest, store, sent, lastObs, firstObs,
                   polls>>

FetchSettled(i, k) ==
    /\ FetchOk(i, k)
    /\ LET cur == latest[Pipe(i, k).project]
           dep == pipes'[i][k].dep
       IN  /\ Settled(dep)
           /\ Settled(cur) => dep = cur

NextSettle ==
    \/ Trigger(1)
    \/ TriggerAgain(1)
    \/ Resolve(1)
    \/ polls < MaxPolls /\ (StepOk(1) \/ StepFail(1))
    \/ polls = MaxPolls /\
            \E k \in 1..MaxList :
                FetchSettled(1, k) \/ GetOk(1, k) \/ SendOk(1, k) \/ PutOk(1, k)

SpecSettle ==
    /\ InitSeq
    /\ [][NextSettle]_vars
    /\ WF_vars(NextSettle)

\* One invocation over two projects, from an empty store, in which every
\* collaborator call eventually returns or throws and the settled promises
\* are eventually collected.
PipeStep(i, k) ==
    \/ FetchOk(i, k) \/ GetOk(i, k) \/ SendOk(i, k) \/ PutOk(i, k)
    \/ FetchFail(i, k) \/ GetFail(i, k)
    \/ SendNon2xx(i, k) \/ SendThrow(i, k) \/ PutFail(i, k)

SpecTwoFair ==
    /\ InitWith(TwoProjects)
    /\ [][NextTwo]_vars
    /\ \A k \in 1..MaxList : WF_vars(PipeStep(1, k))
    /\ WF_vars(Resolve(1))

---------------------------------------------------------------------------
(* The properties.  The status classes below are the ones the properties   *)
(* speak of, written out independently of the lookup tables of the code.   *)

NonTerminalStatuses == {"pending", "active", "in_progress", "idle"}
TerminalStatuses == {"success", "failed", "canceled", "error", "skipped"}

\* Every pipeline of the state, as <<invocation, position>>.
AllPipes == {ik \in Invs \X (1..MaxList) : ik[2] <= Len(pipes[ik[1]])}

ThePipe(ik) == pipes[ik[1]][ik[2]]

\* Pipelines that have returned from the store read and decided.
Decided == {ik \in AllPipes : ThePipe(ik).read}

\* Decided pipelines that ran to their end without reaching the catch block.
Completed == {ik \in Decided : ThePipe(ik).pc = "done" /\ ~ThePipe(ik).caught}

\* lowercase(current.status) of a fetched deployment.
LowerCased(dep) == ToLowerCase(s(dep.status))

\* How often an embed of this kind for deployment d is in a log.
Count(log, kind, d) ==
    Cardinality({n \in 1..Len(log) : log[n] = [kind |-> kind, id |-> d]})

\* What a poll is to send for a status seen on a first or new deployment.
Expected(status) ==
    IF status \in NonTerminalStatuses THEN <<"Started">>
    ELSE IF status \in TerminalStatuses THEN <<"Finished">>
    ELSE << >>

\* C1: over non-overlapping, failure-free polls of a project whose
\* deployment ids only move forward, every deployment id gets at most one
\* Started and at most one Finished, and no Started after its Finished.
C1_OncePerDeployment ==
    \A p \in ProjectNames : \A d \in Ids :
        /\ Count(sent[p], "Started", d) <= 1
        /\ Count(sent[p], "Finished", d) <= 1
        /\ \A m, n \in 1..Len(sent[p]) :
              (m < n /\ sent[p][m] = [kind |-> "Finished", id |-> d])
                  => sent[p][n] # [kind |-> "Started", id |-> d]

\* A deployment got its Started and its Finished, and a later poll of the
\* same deployment, still terminal, has run to its end.
C1_Witness ==
    \E ik \in Completed :
        LET p == ThePipe(ik)
        IN  /\ Count(sent[p.project], "Started", p.latestId) = 1
            /\ Count(sent[p.project], "Finished", p.latestId) = 1
            /\ p.status \in TerminalStatuses
            /\ p.repeat

\* C2: first observation (no record, the fetched deployment has an id): the
\* poll sends Started for a non-terminal lower-cased status, Finished for a
\* terminal one and nothing otherwise, and writes the record
\* {id: current.id, status: lowercase(current.status)}.
C2_FirstObservation ==
    \A ik \in Completed :
        LET p == ThePipe(ik)
        IN  p.prev = NoRecord =>
                /\ p.sends = Expected(LowerCased(p.dep))
                /\ p.put = "ok"
                /\ p.wrote = [id |-> p.dep.id, status |-> LowerCased(p.dep)]

\* C3: new deployment (a record exists, the fetched id differs from the
\* recorded one): the poll sends Started / Finished / nothing by the class
\* of the new status alone and overwrites the record with
\* {id: current.id, status: lowercase(current.status)}.
C3_NewDeployment ==
    \A ik \in Completed :
        LET p == ThePipe(ik)
        IN  (p.prev # NoRecord /\ p.prev.id # p.dep.id) =>
                /\ p.sends = Expected(LowerCased(p.dep))
                /\ p.put = "ok"
                /\ p.wrote = [id |-> p.dep.id, status |-> LowerCased(p.dep)]

\* C4: same deployment reaching a terminal outcome (fetched id = recorded
\* id, current status terminal, recorded status not terminal): the poll
\* sends exactly one Finished and writes {id, current terminal status}.
C4_SameIdFinishes ==
    \A ik \in Completed :
        LET p == ThePipe(ik)
        IN  (/\ p.prev # NoRecord
             /\ p.prev.id = p.dep.id
             /\ LowerCased(p.dep) \in TerminalStatuses
             /\ p.prev.status \notin TerminalStatuses) =>
                /\ p.sends = <<"Finished">>
                /\ p.put = "ok"
                /\ p.wrote = [id |-> p.dep.id, status |-> LowerCased(p.dep)]

\* C5: same deployment, no transition (fetched id = recorded id and the
\* current status is non-terminal or unknown, or the recorded status is
\* already terminal): the poll sends nothing and does not write the store.
C5_SameIdNoTransition ==
    \A ik \in Completed :
        LET p == ThePipe(ik)
        IN  (/\ p.prev # NoRecord
             /\ p.prev.id = p.dep.id
             /\ \/ LowerCased(p.dep) \notin TerminalStatuses
                \/ p.prev.status \in TerminalStatuses) =>
                /\ p.sends = << >>
                /\ p.put = "none"
                /\ store[kvKey(p.project)] = JSONstringify(p.prev)

\* C6: re-polling is idempotent: when a non-overlapping, failure-free poll
\* fetches the (id, status) the poll before it fetched, it sends nothing
\* and does not write the store.
C6_RepollIdempotent ==
    \A ik \in Decided :
        LET p == ThePipe(ik)
        IN  p.repeat =>
                /\ p.todo = << >> /\ p.sends = << >>
                /\ ~p.write /\ p.put = "none"

\* A poll ran to its end having fetched what the poll before it fetched,
\* and that earlier poll had sent an embed for the deployment.
C6_Witness ==
    \E ik \in Completed :
        LET p == ThePipe(ik)
        IN  /\ p.repeat
            /\ p.prev = [id |-> p.latestId, status |-> p.status]
            /\ \E n \in 1..Len(sent[p.project]) : sent[p.project][n].id = p.latestId

\* C7: one pipeline run sends at most one embed, so never both a Started
\* and a Finished, whatever the record and the observation.
C7_AtMostOneSend ==
    \A ik \in AllPipes :
        LET p == ThePipe(ik)
        IN  Len(p.sends) + Len(p.todo) <= 1

\* A pipeline that found a record of an older deployment sent Finished for
\* a new one, and ran to its end.
C7_Witness ==
    \E ik \in Completed :
        LET p == ThePipe(ik)
        IN  /\ p.prev # NoRecord
            /\ p.prev.id # p.latestId
            /\ p.sends = <<"Finished">>
            /\ p.put = "ok"

\* The deployment ids of project p whose first decision saw them terminal.
Raced(p) ==
    {d \in DOMAIN firstObs[p] : firstObs[p][d].status \in TerminalStatuses}

C9_ClassificationExact ==
    \A ik \in Decided :
        LET p    == ThePipe(ik)
            plan == p.sends \o p.todo
            new  == p.prev = NoRecord \/ p.prev.id # p.latestId
        IN  /\ p.status \in NonTerminalStatuses =>
                plan = IF new THEN <<"Started">> ELSE << >>
            /\ p.status \in TerminalStatuses =>
                plan \in {<<"Finished">>, << >>} /\ (new => plan = <<"Finished">>)
            /\ p.status \notin (NonTerminalStatuses \cup TerminalStatuses) =>
                plan = << >>

\* C10: when a poll decided to write the record and the send of its embed
\* fails (a non-success answer, or the send call itself errors), the
\* pipeline still calls the store write.
C10_SendFailureStillWrites ==
    \A ik \in AllPipes :
        LET p == ThePipe(ik)
        IN  (p.pc = "done" /\ p.write /\ p.sendOutcome \in {"non2xx", "threw"})
                => p.put # "none"

\* What a pipeline that stops at its fetch leaves behind: nothing sent or
\* planned, the store neither read nor written, the stored text as found.
NoEffect(p) ==
    /\ p.sends = << >>
    /\ p.todo = << >>
    /\ ~p.read
    /\ p.put = "none"
    /\ store[kvKey(p.project)] = p.before

\* C11: when the fetch of the latest deployment fails or the API answers
\* with a non-success status, that project's pipeline sends no
\* notification, neither reads nor writes the store, and leaves the
\* project's record unchanged.
C11_FetchErrorNoEffect ==
    \A ik \in AllPipes :
        ThePipe(ik).threw = "fetch" => NoEffect(ThePipe(ik))

\* A fetch failed for a project that has a record.
C11_Witness ==
    \E ik \in AllPipes :
        LET p == ThePipe(ik)
        IN  /\ p.pc = "done"
            /\ p.threw = "fetch"
            /\ p.before # NullText

\* C12: when the fetch returns no deployment, or a deployment without an
\* id, the pipeline sends no notification and leaves the record unchanged:
\* not created, not overwritten, not deleted.
C12_NoDeploymentNoEffect ==
    \A ik \in AllPipes :
        LET p == ThePipe(ik)
        IN  (p.pc # "fetch" /\ p.threw = "none" /\ p.dep \in Malformed)
                => NoEffect(p)

\* The API answered with a deployment that has no id while the project
\* had a record.
C12_Witness ==
    \E ik \in AllPipes :
        LET p == ThePipe(ik)
        IN  /\ p.pc = "done"
            /\ p.threw = "none"
            /\ p.dep # NullDeployment
            /\ p.dep.id = NoId
            /\ p.before # NullText

\* prev as parsed from a stored text.
Parsed(text) == IF text = NullText THEN NoRecord ELSE JSONparse(text)

\* The embeds a pipeline handed to the webhook.
Embeds(p) == [j \in 1..Len(p.sends) |-> [kind |-> p.sends[j], id |-> p.latestId]]

\* The outcome of a finished pipeline as its own inputs give it: the record
\* found at the trigger, the deployment fetched, and the call of its own
\* that threw, if any.
OwnOutcome(p) ==
    LET prev  == Parsed(p.before)
        plan  == Notifications(prev, p.latestId, p.status)
        write == ShouldPut(prev, p.latestId, p.status)
        rec   == JSONstringify([id |-> p.latestId, status |-> p.status])
        key   == kvKey(p.project)
    IN  /\ sent[p.project] = Embeds(p)
        /\ IF p.dep \in Malformed \/ p.threw = "get"
           THEN p.sends = << >> /\ store[key] = p.before
           ELSE IF p.threw = "send"
           THEN plan # << >> /\ p.sends = <<Head(plan)>> /\ store[key] = p.before
           ELSE IF p.threw = "put"
           THEN write /\ p.sends = plan /\ store[key] = p.before
           ELSE /\ p.sends = plan
                /\ store[key] = IF write THEN rec ELSE p.before

\* C13: within one invocation the failure of a collaborator call (fetch,
\* store read, record parse, send, store write) in one project's pipeline
\* does not change what is sent or written for any other project: every
\* other pipeline can still take its next step, and finishes with its own
\* outcome.
C13_FailureIsolation ==
    \A ik \in AllPipes : \A jk \in AllPipes :
        (ik # jk /\ ik[1] = jk[1] /\ ThePipe(jk).threw # "none") =>
            IF ThePipe(ik).pc = "done"
            THEN OwnOutcome(ThePipe(ik))
            ELSE ENABLED (\/ FetchOk(ik[1], ik[2]) \/ GetOk(ik[1], ik[2])
                          \/ SendOk(ik[1], ik[2]) \/ PutOk(ik[1], ik[2]))

\* One pipeline threw at its store read, and the pipeline of the other
\* project sent its embed and wrote its record.
C13_Witness ==
    \E ik \in AllPipes : \E jk \in AllPipes :
        /\ ik # jk /\ ik[1] = jk[1]
        /\ ThePipe(jk).threw = "get"
        /\ ThePipe(ik).pc = "done"
        /\ ThePipe(ik).threw = "none"
        /\ ThePipe(ik).sends # << >>
        /\ ThePipe(ik).put = "ok"

\* C14: provided every collaborator call eventually returns or throws, an
\* invocation of handle eventually resolves, and it resolves only after
\* every project's pipeline has finished.
C14_HandleResolves ==
    /\ (inv[1] = "running") ~> (inv[1] = "idle")
    /\ [][(inv[1] = "running" /\ inv'[1] = "idle")
            => \A k \in 1..Len(pipes[1]) : pipes[1][k].pc = "done"]_vars

\* The invocation over two projects has resolved, one of its pipelines
\* having thrown and the other having written its record.
C14_Witness ==
    /\ polls = 1
    /\ inv[1] = "idle"
    /\ Len(pipes[1]) = 2
    /\ \E k \in 1..2 : pipes[1][k].threw # "none"
    /\ \E k \in 1..2 : pipes[1][k].put = "ok"

\* C15: a project's pipeline reads and writes only the key derived from its
\* own project name, and in every interleaving of the pipelines of distinct
\* projects each pipeline reads, sends and leaves as final record what it
\* would when run alone from the record found at the trigger.
C15_NoInterference ==
    \A ik \in AllPipes :
        LET p == ThePipe(ik)
        IN  /\ p.keys \subseteq {"deploy:" \o p.project}
            /\ p.read => p.prev = Parsed(p.before)
            /\ p.pc = "done" => OwnOutcome(p)
            /\ p.put = "ok" =>
                    store[kvKey(p.project)] = JSONstringify(p.wrote)

\* The pipelines of the two projects are in flight together: both have read
\* their record and sent their embed, and one has written its record while
\* the other is about to.
C15_Witness ==
    \E ik \in AllPipes : \E jk \in AllPipes :
        /\ ik[1] = jk[1]
        /\ ThePipe(ik).project # ThePipe(jk).project
        /\ ThePipe(ik).put = "ok" /\ ThePipe(ik).sends # << >>
        /\ ThePipe(jk).pc = "put" /\ ThePipe(jk).sends # << >>

\* C16: for every configured project list, no two pipelines started by the
\* same invocation read or write the same store key.
C16_DistinctKeysPerInvocation ==
    \A ik \in AllPipes : \A jk \in AllPipes :
        (ik # jk /\ ik[1] = jk[1]) =>
            ThePipe(ik).keys \cap ThePipe(jk).keys = {}

\* A PROJECTS value that names no project: unset, not JSON, not an array,
\* or an array without a non-empty string.
NoOpConfig ==
    \/ PROJECTS.kind # "array"
    \/ \A j \in DOMAIN PROJECTS.items : PROJECTS.items[j] = ""

\* C17: with a malformed, non-array or empty project list the invocation
\* is a no-op: no pipeline starts, so nothing is fetched, read, written or
\* sent, and handle returns at once.
C17_NoProjectsNoOp ==
    NoOpConfig =>
        /\ \A i \in Invs : pipes[i] = << >> /\ inv[i] = "idle"
        /\ \A p \in ProjectNames :
                /\ latest[p] = NullDeployment
                /\ store[kvKey(p)] = NullText
                /\ sent[p] = << >>

\* handle has been invoked with a PROJECTS value that is JSON but not an
\* array.
C17_Witness ==
    /\ PROJECTS.kind = "object"
    /\ polls = 1

\* C18: the steps of a pipeline are ordered fetch, store read, decision,
\* send, store write: nothing is read before a deployment with an id was
\* fetched, nothing is sent before the read, and the store write is called
\* only after that poll's read and, when the poll sends, only after that
\* send has returned.
C18_StepOrder ==
    \A ik \in AllPipes :
        LET p    == ThePipe(ik)
            plan == Notifications(p.prev, p.latestId, p.status)
        IN  /\ p.keys # {} => (p.pc # "fetch" /\ p.dep \notin Malformed)
            /\ (p.pc = "send" \/ p.sends # << >>) => p.read
            /\ (p.pc = "put" \/ p.put # "none") =>
                    /\ p.read
                    /\ p.todo = << >>
                    /\ p.sends = plan
                    /\ plan # << >> => p.sendOutcome \in {"ok", "non2xx"}

\* A poll has read the record, sent its embed and then written the record.
C18_Witness ==
    \E ik \in AllPipes :
        LET p == ThePipe(ik)
        IN  p.read /\ p.sends # << >> /\ p.put = "ok"

\* C19: a pipeline that aborts on an error (a failed fetch, store read or
\* store write, or a send that throws) stops there and leaves the record as
\* it was before the poll, so the next poll, when it observes what the
\* aborted one observed, decides as the aborted one did: after a failed
\* send or store write it sends the same embed again.
C19_AbortLeavesRecord ==
    \A ik \in AllPipes :
        LET p == ThePipe(ik)
        IN  /\ p.threw # "none" =>
                /\ p.pc = "done" /\ p.todo = << >> /\ p.put # "ok"
                /\ Len(p.sends) <= 1
                /\ store[kvKey(p.project)] = p.before
            /\ (p.read /\ p.repeat /\ p.prior.threw \in {"send", "put"}) =>
                /\ p.plan = p.prior.plan
                /\ p.write = p.prior.write

\* The store write of a poll failed after its embed was sent, and the next
\* poll, which observed the same deployment and status, has sent that embed
\* again and written the record.
C19_Witness ==
    \E ik \in AllPipes :
        LET p == ThePipe(ik)
        IN  /\ p.prior.threw = "put"
            /\ p.repeat
            /\ p.prior.plan # << >>
            /\ p.sends = p.prior.plan
            /\ p.put = "ok"
            /\ Count(sent[p.project], Head(p.sends), p.latestId) = 2

\* Some embed (same kind, same deployment id) was sent twice for a project.
SentTwice ==
    \E p \in ProjectNames : \E d \in Ids : \E kind \in {"Started", "Finished"} :
        Count(sent[p], kind, d) >= 2

\* C20: overlapping invocations for the same project are not protected.
\* While no call fails an embed is sent twice only when an invocation
\* started while another was running, and then it can be: two pipelines of
\* the project read the record before either writes it and both send.
C20_DuplicateOnlyByOverlap == SentTwice => overlap

\* Two pipelines of the same project, started by two invocations, have both
\* read the absent record, both sent Started for the same deployment, and
\* neither has written the record yet.
C20_Witness ==
    \E ik \in AllPipes : \E jk \in AllPipes :
        LET p == ThePipe(ik)
            q == ThePipe(jk)
        IN  /\ ik[1] # jk[1]
            /\ p.project = q.project
            /\ p.latestId = q.latestId
            /\ p.prev = NoRecord /\ q.prev = NoRecord
            /\ p.sends = <<"Started">> /\ q.sends = <<"Started">>
            /\ p.pc = "put" /\ q.pc = "put"
            /\ Count(sent[p.project], "Started", p.latestId) = 2

\* C21: over any polls of a project, overlapping or not, failing or not,
\* from an empty store: whenever the record of the project holds id D with
\* a terminal status, a Finished embed for D has been handed to the
\* webhook for that project.
C21_TerminalRecordHasFinished ==
    \A p \in ProjectNames :
        LET text == store[kvKey(p)]
        IN  (text # NullText /\ JSONparse(text).status \in TerminalStatuses)
                => Count(sent[p], "Finished", JSONparse(text).id) >= 1

\* Two invocations were in flight together, a call of one of them threw,
\* and the record holds a terminal status.
C21_Witness ==
    /\ overlap
    /\ \E ik \in AllPipes : ThePipe(ik).threw # "none"
    /\ \E p \in ProjectNames :
            /\ store[kvKey(p)] # NullText
            /\ JSONparse(store[kvKey(p)]).status \in TerminalStatuses

\* The deployment ids of project p whose first decision saw a status that
\* is neither non-terminal nor terminal, and was followed by the write of
\* the record.
RecordedUnknown(p) ==
    {d \in DOMAIN firstObs[p] :
        /\ firstObs[p][d].status \notin (NonTerminalStatuses \cup TerminalStatuses)
        /\ firstObs[p][d].clean}

\* C22: Started is sent only on the first-observation and new-id paths.  No
\* poll whose fetched id equals the recorded id sends Started; a deployment
\* first recorded with an unknown status never gets a Started, and gets a
\* Finished from the poll that later finds it terminal.
C22_StartedOnlyOnNewId ==
    /\ \A ik \in Decided :
            LET p == ThePipe(ik)
            IN  (p.prev # NoRecord /\ p.prev.id = p.latestId) =>
                    (p.sends \o p.todo) \in {<< >>, <<"Finished">>}
    /\ \A p \in ProjectNames : \A d \in RecordedUnknown(p) :
            Count(sent[p], "Started", d) = 0
    /\ \A ik \in Completed :
            LET p == ThePipe(ik)
            IN  (/\ p.latestId \in RecordedUnknown(p.project)
                 /\ firstObs[p.project][p.latestId].poll < p.poll
                 /\ p.status \in TerminalStatuses) =>
                    Count(sent[p.project], "Finished", p.latestId) >= 1

\* The record of project p holds the latest deployment of p with a terminal
\* status, and a Finished embed for that deployment was handed to the
\* webhook.
FinishedAndRecorded(p) ==
    LET text == store[kvKey(p)]
    IN  /\ Settled(latest[p])
        /\ text # NullText
        /\ JSONparse(text).id = latest[p].id
        /\ JSONparse(text).status \in TerminalStatuses
        /\ Count(sent[p], "Finished", latest[p].id) >= 1

\* C23, as a property of finite runs: once the latest deployment stays one
\* id D in a terminal status and calls no longer fail, every poll that has
\* run to its end leaves the record at D with a terminal status, a
\* Finished for D having been sent.
C23_SettledPollFinishes ==
    \A ik \in AllPipes :
        LET p == ThePipe(ik)
        IN  (polls = MaxPolls /\ p.poll = MaxPolls /\ p.pc = "done")
                => FinishedAndRecorded(p.project)

\* C23 as stated: if from some point on the latest deployment stays one id
\* D in a terminal status, polls keep occurring without overlapping and
\* calls no longer fail, then eventually a Finished for D has been sent and
\* the record holds D with a terminal status, and stays so.
C23_EventuallyFinished == <>[]FinishedAndRecorded("site-a")

====
